---- MODULE Spec2Model ----
(***************************************************************************)
(* A model of src/bot.py: the knowledge base (an insertion-ordered Python  *)
(* dict backed by JSON files), the conversation logger and the chatbot     *)
(* that composes them.                                                     *)
(*                                                                         *)
(* Text is modelled character by character: a Python str is a sequence of  *)
(* one-character strings, a file is the sequence of characters it holds.   *)
(* json.dump and json.load are modelled by what they write and parse, for  *)
(* the JSON this model's files can hold: strings, non-negative integers,   *)
(* arrays and objects (no float, no true/false/null literal).  The         *)
(* characters are those of ASCII, codes 1 to 127; a \u escape in a file    *)
(* names one of them.                                                      *)
(***************************************************************************)
EXTENDS Naturals, Sequences, FiniteSets, TLC

VARIABLES responses, logs, files, pc, nsteps, last

vars == <<responses, logs, files, pc, nsteps, last>>

\* The number of operations one behaviour performs.
MaxSteps == 3

(***************************************************************************)
(* Python values.  A value is a record [t, v]: a str holds its characters, *)
(* an int its decimal digits, a list its items, a dict its (key, value)    *)
(* pairs in insertion order.                                               *)
(***************************************************************************)
Str(s) == [t |-> "str", v |-> s]
Num(ds) == [t |-> "num", v |-> ds]
Arr(xs) == [t |-> "arr", v |-> xs]
Obj(ps) == [t |-> "obj", v |-> ps]
None == [t |-> "none", v |-> <<>>]

Digits == {"0", "1", "2", "3", "4", "5", "6", "7", "8", "9"}

(***************************************************************************)
(* Characters and their codes.  AsciiLow lists the characters of codes 1   *)
(* to 95 and AsciiHigh those of codes 97 to 127, each in the order of the  *)
(* codes; the control characters stand in the lists as themselves.  The    *)
(* grave accent, code 96, cannot be written in a string of this language   *)
(* and has no entry: str.lower, str.strip, json.dump and repr leave it as  *)
(* it is, and no file of this model names it in a \u escape.               *)
(***************************************************************************)
AsciiLow ==
    <<
      "", "", "", "", "", "", "", "", "\t", "\n", "", "\f",
      "\r", "", "", "", "", "", "", "", "", "", "", "",
      "", "", "", "", "", "", "", " ", "!", "\"", "#", "$",
      "%", "&", "'", "(", ")", "*", "+", ",", "-", ".", "/", "0",
      "1", "2", "3", "4", "5", "6", "7", "8", "9", ":", ";", "<",
      "=", ">", "?", "@", "A", "B", "C", "D", "E", "F", "G", "H",
      "I", "J", "K", "L", "M", "N", "O", "P", "Q", "R", "S", "T",
      "U", "V", "W", "X", "Y", "Z", "[", "\\", "]", "^", "_"
    >>

AsciiHigh ==
    <<
      "a", "b", "c", "d", "e", "f", "g", "h", "i", "j", "k", "l",
      "m", "n", "o", "p", "q", "r", "s", "t", "u", "v", "w", "x",
      "y", "z", "{", "|", "}", "~", ""
    >>

AsciiCodes == (1..127) \ {96}

\* chr(n)
Chr(n) == IF n < 96 THEN AsciiLow[n] ELSE AsciiHigh[n - 96]

\* ord(c)
Ord(c) == CHOOSE n \in AsciiCodes : Chr(n) = c

\* The control characters below the space, codes 1 to 31.
ControlChars == {Chr(n) : n \in 1..31}

\* chr(127)
Del == Chr(127)

HexDigits ==
    <<"0", "1", "2", "3", "4", "5", "6", "7", "8", "9", "a", "b", "c", "d", "e", "f">>

\* The two lower-case hexadecimal digits of a code below 256.
Hex2(n) == <<HexDigits[(n \div 16) + 1], HexDigits[(n % 16) + 1]>>

\* str.lower() on one character.
LowerChar(c) ==
    CASE c = "A" -> "a" [] c = "B" -> "b" [] c = "C" -> "c" [] c = "D" -> "d"
      [] c = "E" -> "e" [] c = "F" -> "f" [] c = "G" -> "g" [] c = "H" -> "h"
      [] c = "I" -> "i" [] c = "J" -> "j" [] c = "K" -> "k" [] c = "L" -> "l"
      [] c = "M" -> "m" [] c = "N" -> "n" [] c = "O" -> "o" [] c = "P" -> "p"
      [] c = "Q" -> "q" [] c = "R" -> "r" [] c = "S" -> "s" [] c = "T" -> "t"
      [] c = "U" -> "u" [] c = "V" -> "v" [] c = "W" -> "w" [] c = "X" -> "x"
      [] c = "Y" -> "y" [] c = "Z" -> "z" [] OTHER -> c

Lower(s) == [i \in 1..Len(s) |-> LowerChar(s[i])]

\* The characters str.strip() removes: the space, the tab, the line feed,
\* the vertical tab, the form feed, the carriage return (codes 9 to 13) and
\* the four separators (codes 28 to 31).
StripChars == {" "} \cup {Chr(n) : n \in (9..13) \cup (28..31)}

RECURSIVE LStrip(_)
LStrip(s) ==
    IF s # <<>> /\ Head(s) \in StripChars THEN LStrip(Tail(s)) ELSE s

RECURSIVE RStrip(_)
RStrip(s) ==
    IF s # <<>> /\ s[Len(s)] \in StripChars
    THEN RStrip(SubSeq(s, 1, Len(s) - 1))
    ELSE s

Strip(s) == RStrip(LStrip(s))

\* NaturalLanguageProcessor.preprocess_input
preprocess_input(user_input) == Strip(Lower(user_input))

(***************************************************************************)
(* The dict: a sequence of <<key, value>> pairs with distinct keys.        *)
(***************************************************************************)
DictKeys(d) == {d[i][1] : i \in 1..Len(d)}

DictHas(d, k) == \E i \in 1..Len(d) : d[i][1] = k

DictIndex(d, k) == CHOOSE i \in 1..Len(d) : d[i][1] = k

\* d.get(k, default)
DictGet(d, k, default) == IF DictHas(d, k) THEN d[DictIndex(d, k)][2] ELSE default

\* A variant of DictSet that stores every assignment as a new entry, as a
\* list of pairs would.
DictSetAppend(d, k, v) == Append(d, <<k, v>>)

\* d[k] = v: an existing key keeps its place, a new key goes last.
DictSet(d, k, v) ==
    IF DictHas(d, k)
    THEN [d EXCEPT ![DictIndex(d, k)] = <<k, v>>]
    ELSE Append(d, <<k, v>>)

RECURSIVE DictMerge(_, _)
DictMerge(d, ps) ==
    IF ps = <<>> THEN d
    ELSE DictMerge(DictSet(d, Head(ps)[1], Head(ps)[2]), Tail(ps))

Fallback ==
    <<"S", "o", "r", "r", "y", ",", " ", "I", " ", "d", "o", "n", "'", "t", " ",
      "u", "n", "d", "e", "r", "s", "t", "a", "n", "d", " ", "t", "h", "a", "t", ".">>

\* A variant of get_response that gives no default to dict.get.
get_response_nodefault(d, user_input) == DictGet(d, Str(user_input), None)

\* KnowledgeBase.get_response
get_response(d, user_input) == DictGet(d, Str(user_input), Str(Fallback))

\* KnowledgeBase.add_response
add_response(d, input_str, response) == DictSet(d, Str(input_str), Str(response))

(***************************************************************************)
(* json.dump(obj, file, indent=4): the text the encoder writes.            *)
(***************************************************************************)
RECURSIVE Concat(_)
Concat(ss) == IF ss = <<>> THEN <<>> ELSE Head(ss) \o Concat(Tail(ss))

RECURSIVE Join(_, _)
Join(ss, sep) ==
    IF ss = <<>> THEN <<>>
    ELSE IF Len(ss) = 1 THEN ss[1]
    ELSE ss[1] \o sep \o Join(Tail(ss), sep)

\* The encoder's escapes (ensure_ascii) of one character of a string.
EscapeChar(c) ==
    CASE c = "\"" -> <<"\\", "\"">>
      [] c = "\\" -> <<"\\", "\\">>
      [] c = "\n" -> <<"\\", "n">>
      [] c = "\r" -> <<"\\", "r">>
      [] c = "\t" -> <<"\\", "t">>
      [] c = "\f" -> <<"\\", "f">>
      [] c = Chr(8) -> <<"\\", "b">>
      [] c \in ControlChars \cup {Del} -> <<"\\", "u", "0", "0">> \o Hex2(Ord(c))
      [] OTHER -> <<c>>

EncodeString(s) ==
    <<"\"">> \o Concat([i \in 1..Len(s) |-> EscapeChar(s[i])]) \o <<"\"">>

\* A dict key as the encoder writes it: a str as a string, an int as the
\* string of its digits.
EncodeKey(k) == IF k.t = "num" THEN <<"\"">> \o k.v \o <<"\"">> ELSE EncodeString(k.v)

\* A newline and the indentation of nesting level lvl (indent=4).
NewlineIndent(lvl) == <<"\n">> \o [i \in 1..(4 * lvl) |-> " "]

RECURSIVE JsonEncode(_, _)
JsonEncode(x, lvl) ==
    CASE x.t = "str" -> EncodeString(x.v)
      [] x.t = "num" -> x.v
      [] x.t = "arr" ->
            IF x.v = <<>> THEN <<"[", "]">>
            ELSE <<"[">> \o NewlineIndent(lvl + 1)
                 \o Join([i \in 1..Len(x.v) |-> JsonEncode(x.v[i], lvl + 1)],
                         <<",">> \o NewlineIndent(lvl + 1))
                 \o NewlineIndent(lvl) \o <<"]">>
      [] x.t = "obj" ->
            IF x.v = <<>> THEN <<"{", "}">>
            ELSE <<"{">> \o NewlineIndent(lvl + 1)
                 \o Join([i \in 1..Len(x.v) |->
                             EncodeKey(x.v[i][1]) \o <<":", " ">>
                             \o JsonEncode(x.v[i][2], lvl + 1)],
                         <<",">> \o NewlineIndent(lvl + 1))
                 \o NewlineIndent(lvl) \o <<"}">>

JsonDump(d) == JsonEncode(Obj(d), 0)

(***************************************************************************)
(* json.load: the decoder.  A parse yields [ok, val, pos]: whether a value *)
(* was read, the value, and the index after it.                            *)
(***************************************************************************)
JsonWhitespace == {" ", "\t", "\n", "\r"}

ParseFail == [ok |-> FALSE, val |-> None, pos |-> 0]

ParseOk(x, p) == [ok |-> TRUE, val |-> x, pos |-> p]

RECURSIVE SkipWs(_, _)
SkipWs(s, i) ==
    IF i <= Len(s) /\ s[i] \in JsonWhitespace THEN SkipWs(s, i + 1) ELSE i

\* The character an escape \e stands for.
Unescape(e) ==
    CASE e = "n" -> "\n" [] e = "r" -> "\r" [] e = "t" -> "\t" [] e = "f" -> "\f"
      [] e = "b" -> Chr(8)
      [] OTHER -> e

EscapeLetters == {"\"", "\\", "/", "b", "n", "r", "t", "f"}

\* The value of one hexadecimal digit, 16 for any other character.
HexVal(c) ==
    CASE c = "0" -> 0 [] c = "1" -> 1 [] c = "2" -> 2 [] c = "3" -> 3
      [] c = "4" -> 4 [] c = "5" -> 5 [] c = "6" -> 6 [] c = "7" -> 7
      [] c = "8" -> 8 [] c = "9" -> 9
      [] c \in {"a", "A"} -> 10 [] c \in {"b", "B"} -> 11 [] c \in {"c", "C"} -> 12
      [] c \in {"d", "D"} -> 13 [] c \in {"e", "E"} -> 14 [] c \in {"f", "F"} -> 15
      [] OTHER -> 16

\* The code four hexadecimal digits name, h their values; 65536 where one
\* of them is no hexadecimal digit.
HexCode(h) ==
    IF \E j \in 1..4 : h[j] = 16 THEN 65536
    ELSE 4096 * h[1] + 256 * h[2] + 16 * h[3] + h[4]

\* The code a \u escape names, its four digits at s[i..i+3]; 65536 where
\* they are not four hexadecimal digits.
UnicodeEscape(s, i) ==
    IF i + 3 > Len(s) THEN 65536
    ELSE HexCode([j \in 1..4 |-> HexVal(s[i + j - 1])])

\* What one character of a string's body reads as: [ok, c, n], the character
\* and the number of characters of the text that stand for it.
NoChar == [ok |-> FALSE, c |-> "", n |-> 0]

CharOf(c, n) == [ok |-> TRUE, c |-> c, n |-> n]

\* The character a \u escape of this code stands for.
UnicodeChar(code) == IF code \in AsciiCodes THEN CharOf(Chr(code), 6) ELSE NoChar

\* The character of a string's body at index i.  A control character may
\* not stand unescaped in a string (strict).
StringChar(s, i) ==
    IF s[i] = "\\"
    THEN IF i + 1 > Len(s) THEN NoChar
         ELSE IF s[i + 1] \in EscapeLetters THEN CharOf(Unescape(s[i + 1]), 2)
         ELSE IF s[i + 1] = "u" THEN UnicodeChar(UnicodeEscape(s, i + 2))
         ELSE NoChar
    ELSE IF s[i] \in ControlChars THEN NoChar
    ELSE CharOf(s[i], 1)

RECURSIVE ScanString(_, _, _)

\* The body of a string continued after the character r read at index i.
ScanStringAfter(s, i, acc, r) ==
    IF r.ok THEN ScanString(s, i + r.n, Append(acc, r.c)) ELSE ParseFail

\* The body of a string, from index i (after the opening quote).
ScanString(s, i, acc) ==
    IF i > Len(s) THEN ParseFail
    ELSE IF s[i] = "\"" THEN ParseOk(Str(acc), i + 1)
    ELSE ScanStringAfter(s, i, acc, StringChar(s, i))

RECURSIVE DigitsEnd(_, _)
DigitsEnd(s, i) ==
    IF i <= Len(s) /\ s[i] \in Digits THEN DigitsEnd(s, i + 1) ELSE i

\* An integer at index i (s[i] is a digit): 0, or a run with no leading 0.
ScanNumber(s, i) ==
    IF s[i] = "0" THEN ParseOk(Num(<<"0">>), i + 1)
    ELSE ParseOk(Num(SubSeq(s, i, DigitsEnd(s, i) - 1)), DigitsEnd(s, i))

RECURSIVE ScanValue(_, _)
RECURSIVE ScanArrayItems(_, _, _)
RECURSIVE ScanObjectItems(_, _, _)

\* The items of an array from index i (the start of an item), acc the items
\* read so far.
ScanArrayItems(s, i, acc) ==
    LET item == ScanValue(s, i)
        j == SkipWs(s, item.pos)
    IN  IF ~item.ok \/ j > Len(s) THEN ParseFail
        ELSE IF s[j] = "]" THEN ParseOk(Arr(Append(acc, item.val)), j + 1)
        ELSE IF s[j] = "," THEN ScanArrayItems(s, SkipWs(s, j + 1), Append(acc, item.val))
        ELSE ParseFail

\* The members of an object from index i (the opening quote of a key), acc
\* the dict built so far: a repeated key keeps its place and takes the later
\* value.
ScanObjectItems(s, i, acc) ==
    IF i > Len(s) \/ s[i] # "\"" THEN ParseFail
    ELSE LET key == ScanString(s, i + 1, <<>>)
             c == SkipWs(s, key.pos)
         IN  IF ~key.ok \/ c > Len(s) \/ s[c] # ":" THEN ParseFail
             ELSE LET item == ScanValue(s, SkipWs(s, c + 1))
                      j == SkipWs(s, item.pos)
                      d == DictSet(acc, key.val, item.val)
                  IN  IF ~item.ok \/ j > Len(s) THEN ParseFail
                      ELSE IF s[j] = "}" THEN ParseOk(Obj(d), j + 1)
                      ELSE IF s[j] = "," THEN ScanObjectItems(s, SkipWs(s, j + 1), d)
                      ELSE ParseFail

ScanValue(s, i) ==
    IF i > Len(s) THEN ParseFail
    ELSE IF s[i] = "\"" THEN ScanString(s, i + 1, <<>>)
    ELSE IF s[i] \in Digits THEN ScanNumber(s, i)
    ELSE IF s[i] = "["
         THEN LET j == SkipWs(s, i + 1)
              IN  IF j <= Len(s) /\ s[j] = "]" THEN ParseOk(Arr(<<>>), j + 1)
                  ELSE ScanArrayItems(s, j, <<>>)
    ELSE IF s[i] = "{"
         THEN LET j == SkipWs(s, i + 1)
              IN  IF j <= Len(s) /\ s[j] = "}" THEN ParseOk(Obj(<<>>), j + 1)
                  ELSE ScanObjectItems(s, j, <<>>)
    ELSE ParseFail

\* json.loads(text): one value with whitespace around it and nothing after;
\* ok is FALSE where the decoder raises JSONDecodeError.
JsonLoads(text) ==
    LET r == ScanValue(text, SkipWs(text, 1))
    IN  IF r.ok /\ SkipWs(text, r.pos) = Len(text) + 1 THEN r ELSE ParseFail

(***************************************************************************)
(* dict.update(data) as load_knowledge calls it on whatever json.load      *)
(* returned.  A dict is merged.  Anything else is iterated as a sequence   *)
(* of pairs, each item applied as it is read, so an item that is no pair   *)
(* raises after the items before it were stored.                           *)
(***************************************************************************)
NoPair(e) == [exc |-> e, k |-> None, v |-> None]

\* One item of the iterable as a (key, value) pair, or the exception raised.
PairOf(item) ==
    CASE item.t = "num" -> NoPair("TypeError")
      [] item.t = "str" ->
            IF Len(item.v) = 2
            THEN [exc |-> "none", k |-> Str(<<item.v[1]>>), v |-> Str(<<item.v[2]>>)]
            ELSE NoPair("ValueError")
      [] item.t = "arr" ->
            IF Len(item.v) # 2 THEN NoPair("ValueError")
            ELSE IF item.v[1].t \in {"arr", "obj"} THEN NoPair("TypeError")
            ELSE [exc |-> "none", k |-> item.v[1], v |-> item.v[2]]
      [] item.t = "obj" ->
            IF Len(item.v) = 2
            THEN [exc |-> "none", k |-> item.v[1][1], v |-> item.v[2][1]]
            ELSE NoPair("ValueError")

RECURSIVE UpdateFromItems(_, _)
UpdateFromItems(d, items) ==
    IF items = <<>> THEN [map |-> d, exc |-> "none"]
    ELSE LET p == PairOf(Head(items))
         IN  IF p.exc # "none" THEN [map |-> d, exc |-> p.exc]
             ELSE UpdateFromItems(DictSet(d, p.k, p.v), Tail(items))

DictUpdate(d, data) ==
    CASE data.t = "obj" -> [map |-> DictMerge(d, data.v), exc |-> "none"]
      [] data.t = "arr" -> UpdateFromItems(d, data.v)
      [] data.t = "str" ->
            UpdateFromItems(d, [i \in 1..Len(data.v) |-> Str(<<data.v[i]>>)])
      [] data.t = "num" -> [map |-> d, exc |-> "TypeError"]

(***************************************************************************)
(* str() and repr() of a value, as an f-string and print() use them.       *)
(***************************************************************************)
\* The quote repr() puts around a str: a double quote when the str holds a
\* single quote and no double quote, a single quote otherwise.
ReprQuote(s) ==
    IF (\E i \in 1..Len(s) : s[i] = "'") /\ (\A i \in 1..Len(s) : s[i] # "\"")
    THEN "\""
    ELSE "'"

\* One character of a str inside its repr, q the quote around it.
ReprChar(c, q) ==
    CASE c = "\\" -> <<"\\", "\\">>
      [] c = q -> <<"\\", c>>
      [] c = "\n" -> <<"\\", "n">>
      [] c = "\r" -> <<"\\", "r">>
      [] c = "\t" -> <<"\\", "t">>
      [] c \in ControlChars \cup {Del} -> <<"\\", "x">> \o Hex2(Ord(c))
      [] OTHER -> <<c>>

RECURSIVE PyRepr(_)
PyRepr(x) ==
    CASE x.t = "str" ->
            <<ReprQuote(x.v)>>
            \o Concat([i \in 1..Len(x.v) |-> ReprChar(x.v[i], ReprQuote(x.v))])
            \o <<ReprQuote(x.v)>>
      [] x.t = "num" -> x.v
      [] x.t = "arr" ->
            <<"[">> \o Join([i \in 1..Len(x.v) |-> PyRepr(x.v[i])], <<",", " ">>)
            \o <<"]">>
      [] x.t = "obj" ->
            <<"{">>
            \o Join([i \in 1..Len(x.v) |->
                        PyRepr(x.v[i][1]) \o <<":", " ">> \o PyRepr(x.v[i][2])],
                    <<",", " ">>)
            \o <<"}">>

\* What an f-string puts for {x}: a str as it is, anything else its repr.
PyFormat(x) == IF x.t = "str" THEN x.v ELSE PyRepr(x)

(***************************************************************************)
(* Files.  A file is [exists, text].  What the file system does to an open *)
(* or a write is an input of the call: "ok", or a failure.                 *)
(***************************************************************************)
NoFile == [exists |-> FALSE, text |-> <<>>]

FileOf(text) == [exists |-> TRUE, text |-> text]

\* open(path, "r"): "ok" opens the file, or raises FileNotFoundError when
\* there is none; "oserror" raises another OSError, whether the file exists
\* or not (permission denied, a directory, no descriptor left).
ReadEnv == {"ok", "oserror"}

\* The numbers of characters a file system that runs out of room (file size
\* limit, disk full) may accept.
WriteLimits == {0, 5}

\* open(path, "w") and the writes: "ok", all succeed; "open_fails", open
\* raises OSError and the file is untouched; "write_limit", open truncates
\* the file and the file system accepts only the first n characters: a text
\* that fits is written whole, of a longer one the first n characters reach
\* the file and the flush at close raises OSError.
WriteEnv ==
    {[kind |-> "ok", n |-> 0], [kind |-> "open_fails", n |-> 0]}
        \cup {[kind |-> "write_limit", n |-> k] : k \in WriteLimits}

\* A variant of load_knowledge that replaces the dict by the file's content
\* instead of merging it.
load_knowledge_replacing(d, file, env) ==
    IF env # "ok" THEN [map |-> d, status |-> "raised OSError"]
    ELSE IF ~file.exists THEN [map |-> d, status |-> "not_found"]
    ELSE LET r == JsonLoads(file.text)
         IN  IF ~r.ok THEN [map |-> d, status |-> "decode_error"]
             ELSE LET u == DictUpdate(<<>>, r.val)
                  IN  IF u.exc = "none" THEN [map |-> u.map, status |-> "loaded"]
                      ELSE [map |-> u.map, status |-> "raised " \o u.exc]

\* KnowledgeBase.load_knowledge: the dict after the call and how the call
\* ended (the notice printed, or the exception that left the method).
load_knowledge(d, file, env) ==
    IF env # "ok" THEN [map |-> d, status |-> "raised OSError"]
    ELSE IF ~file.exists THEN [map |-> d, status |-> "not_found"]
    ELSE LET r == JsonLoads(file.text)
         IN  IF ~r.ok THEN [map |-> d, status |-> "decode_error"]
             ELSE LET u == DictUpdate(d, r.val)
                  IN  IF u.exc = "none" THEN [map |-> u.map, status |-> "loaded"]
                      ELSE [map |-> u.map, status |-> "raised " \o u.exc]

\* What open(path, "w") followed by writing text leaves in the file, and
\* how the try block ended.
\* (When the flush fails the success notice has been printed already, and
\* the error notice follows it.)
WriteFile(file, text, env) ==
    CASE env.kind = "ok" -> [file |-> FileOf(text), status |-> "saved"]
      [] env.kind = "open_fails" -> [file |-> file, status |-> "save_error"]
      [] env.kind = "write_limit" ->
            IF Len(text) <= env.n
            THEN [file |-> FileOf(text), status |-> "saved"]
            ELSE [file |-> FileOf(SubSeq(text, 1, env.n)), status |-> "save_error"]

\* A variant of save_knowledge that writes str(self.responses) instead of
\* JSON.
save_knowledge_repr(d, file, env) == WriteFile(file, PyRepr(Obj(d)), env)

\* KnowledgeBase.save_knowledge
save_knowledge(d, file, env) == WriteFile(file, JsonDump(d), env)

(***************************************************************************)
(* The logger.                                                             *)
(***************************************************************************)
DigitChar(n) ==
    CASE n = 0 -> "0" [] n = 1 -> "1" [] n = 2 -> "2" [] n = 3 -> "3" [] n = 4 -> "4"
      [] n = 5 -> "5" [] n = 6 -> "6" [] n = 7 -> "7" [] n = 8 -> "8" [] n = 9 -> "9"

\* time.strftime("%Y-%m-%d %H:%M:%S") when the wall clock reads second
\* sec of 2026-10-29 17:25.
Strftime(sec) ==
    <<"2", "0", "2", "6", "-", "1", "0", "-", "2", "9", " ", "1", "7", ":", "2", "5", ":",
      DigitChar(sec \div 10), DigitChar(sec % 10)>>

\* The wall-clock seconds a call may read.
ClockReadings == {7, 12}

\* A variant of log_message that puts the new entry first.
log_message_prepend(lg, sec, user_input, bot_response) ==
    <<<<"[">> \o Strftime(sec)
      \o <<"]", " ", "U", "s", "e", "r", ":", " ">> \o user_input
      \o <<" ", "|", " ", "B", "o", "t", ":", " ">> \o PyFormat(bot_response)>> \o lg

\* Logger.log_message
log_message(lg, sec, user_input, bot_response) ==
    Append(lg,
           <<"[">> \o Strftime(sec)
           \o <<"]", " ", "U", "s", "e", "r", ":", " ">> \o user_input
           \o <<" ", "|", " ", "B", "o", "t", ":", " ">> \o PyFormat(bot_response))

\* The text Logger.save_logs writes: each entry and a newline.
LogText(lg) == Concat([i \in 1..Len(lg) |-> lg[i] \o <<"\n">>])

\* Logger.save_logs
save_logs(lg, file, env) == WriteFile(file, LogText(lg), env)

\* Logger.display_logs: what is printed.
display_logs(lg) == IF lg = <<>> THEN "no_logs" ELSE "printed"

\* A variant of process_message that logs the message as typed.
process_message_raw(d, lg, sec, message) ==
    LET response == get_response(d, preprocess_input(message))
    IN  [ret |-> response, logs |-> log_message(lg, sec, message, response)]

\* Chatbot.process_message: the response returned and the log after it.
process_message(d, lg, sec, message) ==
    LET preprocessed_message == preprocess_input(message)
        response == get_response(d, preprocessed_message)
    IN  [ret |-> response, logs |-> log_message(lg, sec, preprocessed_message, response)]

(***************************************************************************)
(* The inputs of the model: the files found on disk when the program       *)
(* starts, and what the callers pass.                                      *)
(***************************************************************************)
DefaultFile == "knowledge_base.json"

OtherFile == "other.json"

Paths == {DefaultFile, OtherFile}

\* A knowledge file: {"hello": "hi there"}
TextHello ==
    <<"{", "\"", "h", "e", "l", "l", "o", "\"", ":", " ", "\"", "h", "i",
      " ", "t", "h", "e", "r", "e", "\"", "}">>

\* A knowledge file that overwrites one key and adds one: {"hello": "yo", "k": "v"}
TextPatch ==
    <<"{", "\"", "h", "e", "l", "l", "o", "\"", ":", " ", "\"", "y", "o",
      "\"", ",", " ", "\"", "k", "\"", ":", " ", "\"", "v", "\"", "}">>

\* An object with a value that is no string: {"a": 1}
TextNonString ==
    <<"{", "\"", "a", "\"", ":", " ", "1", "}">>

\* Valid JSON that is no object: 5
TextNumber ==
    <<"5">>

\* A list whose first item is a pair and whose second is not: [["a", "b"], 5]
TextPairsThenNumber ==
    <<"[", "[", "\"", "a", "\"", ",", " ", "\"", "b", "\"", "]", ",", " ",
      "5", "]">>

\* A list of one pair with an integer first: [[1, "x"]]
TextIntKey ==
    <<"[", "[", "1", ",", " ", "\"", "x", "\"", "]", "]">>

\* An object whose value is a list of a str holding a single quote:
\* {"a": ["it's"]}
TextQuoteList ==
    <<"{", "\"", "a", "\"", ":", " ", "[", "\"", "i", "t", "'", "s", "\"", "]", "}">>

\* Invalid JSON: {bad
TextBad ==
    <<"{", "b", "a", "d">>

\* Raw user inputs.
MsgHello ==
    <<" ", " ", "H", "e", "l", "l", "o", " ">>

\* "a"
MsgA ==
    <<"a">>

\* "A" between a vertical tab, the separators of codes 28 to 31 and a form
\* feed: "\x0b\x1c\x1dA\x1e\x1f\x0c"
MsgSeparators ==
    <<Chr(11), Chr(28), Chr(29), "A", Chr(30), Chr(31), Chr(12)>>

\* "1"
MsgOne ==
    <<"1">>

\* "hello"
KeyHello ==
    <<"h", "e", "l", "l", "o">>

\* "hi there"
RespHiThere ==
    <<"h", "i", " ", "t", "h", "e", "r", "e">>

\* " hi there "
RawHiThere ==
    <<" ", "h", "i", " ", "t", "h", "e", "r", "e", " ">>

\* A response holding a double quote and a backslash: a"\
RespQuoted ==
    <<"a", "\"", "\\">>

\* A response holding a separator, a backspace and a delete inside:
\* "x\x1d\x08\x7fy"
RespControls ==
    <<"x", Chr(29), Chr(8), Del, "y">>

\* What knowledge_base.json may hold when the program starts.
DefaultContents == {NoFile, FileOf(TextHello), FileOf(TextNonString)}

\* What the other file may hold when the program starts.
OtherContents ==
    {FileOf(TextPatch), FileOf(TextNumber), FileOf(TextPairsThenNumber),
     FileOf(TextIntKey), FileOf(TextBad), FileOf(TextQuoteList)}

\* (key, response) arguments of add_response.
AddInputs == {<<KeyHello, RespHiThere>>, <<KeyHello, RespQuoted>>, <<MsgOne, RespControls>>}

\* What the admin types at the two prompts of add_knowledge.
TypedInputs == {<<MsgHello, RawHiThere>>, <<MsgOne, RespQuoted>>}

\* Messages given to process_message.
Messages == {MsgHello, MsgSeparators}

\* Keys given to get_response.
LookupKeys == {KeyHello, MsgOne}

(***************************************************************************)
(* The state.  responses is KnowledgeBase.responses, logs is Logger.logs,  *)
(* files the file system, pc whether the process is at its menu or has     *)
(* ended on an uncaught exception.  last records the latest call: its      *)
(* arguments, how it ended, what it returned and the dict before it.       *)
(***************************************************************************)
Raised == {"raised OSError", "raised TypeError", "raised ValueError"}

After(status) == IF status \in Raised THEN "crashed" ELSE "menu"

Call(op, path, msg, resp, sec, status, ret, pre) ==
    [op |-> op, path |-> path, msg |-> msg, resp |-> resp, sec |-> sec,
     status |-> status, ret |-> ret, pre |-> pre]

\* main(): KnowledgeBase.__init__ loads the default file into an empty dict;
\* the Logger starts empty.
Init ==
    \E c1 \in DefaultContents, c2 \in OtherContents, env \in ReadEnv :
        LET r == load_knowledge(<<>>, c1, env)
        IN  /\ files = [p \in Paths |-> IF p = DefaultFile THEN c1 ELSE c2]
            /\ responses = r.map
            /\ logs = <<>>
            /\ pc = After(r.status)
            /\ nsteps = 0
            /\ last = Call("init", DefaultFile, <<>>, <<>>, 0, r.status, None, <<>>)

Ready == pc = "menu" /\ nsteps < MaxSteps

\* A variant of AddResponse that also saves the dict to the default file.
AddResponseSaving(input_str, response) ==
    /\ Ready
    /\ responses' = add_response(responses, input_str, response)
    /\ files' = [files EXCEPT ![DefaultFile] =
                    FileOf(JsonDump(add_response(responses, input_str, response)))]
    /\ last' = Call("add", "", input_str, response, 0, "returned", None, responses)
    /\ nsteps' = nsteps + 1
    /\ UNCHANGED <<logs, pc>>

\* KnowledgeBase.add_response(input_str, response)
AddResponse(input_str, response) ==
    /\ Ready
    /\ responses' = add_response(responses, input_str, response)
    /\ last' = Call("add", "", input_str, response, 0, "returned", None, responses)
    /\ nsteps' = nsteps + 1
    /\ UNCHANGED <<logs, files, pc>>

\* One round of AdminPanel.add_knowledge: the two prompts, add_response,
\* then save_knowledge on the panel's knowledge file.
AddKnowledge(typed_input, typed_response, env) ==
    /\ Ready
    /\ LET input_str == Lower(Strip(typed_input))
           response == Strip(typed_response)
           d == add_response(responses, input_str, response)
           w == save_knowledge(d, files[DefaultFile], env)
       IN  /\ responses' = d
           /\ files' = [files EXCEPT ![DefaultFile] = w.file]
           /\ last' = Call("add_knowledge", DefaultFile, typed_input, typed_response,
                           0, w.status, None, responses)
    /\ nsteps' = nsteps + 1
    /\ UNCHANGED <<logs, pc>>

\* KnowledgeBase.load_knowledge(file_path)
LoadKnowledge(path, env) ==
    /\ Ready
    /\ LET r == load_knowledge(responses, files[path], env)
       IN  /\ responses' = r.map
           /\ pc' = After(r.status)
           /\ last' = Call("load", path, <<>>, <<>>, 0, r.status, None, responses)
    /\ nsteps' = nsteps + 1
    /\ UNCHANGED <<logs, files>>

\* KnowledgeBase.save_knowledge(file_path)
SaveKnowledge(path, env) ==
    /\ Ready
    /\ LET w == save_knowledge(responses, files[path], env)
       IN  /\ files' = [files EXCEPT ![path] = w.file]
           /\ last' = Call("save", path, <<>>, <<>>, 0, w.status, None, responses)
    /\ nsteps' = nsteps + 1
    /\ UNCHANGED <<responses, logs, pc>>

\* KnowledgeBase.get_response(user_input)
GetResponse(user_input) ==
    /\ Ready
    /\ last' = Call("lookup", "", user_input, <<>>, 0, "returned",
                    get_response(responses, user_input), responses)
    /\ nsteps' = nsteps + 1
    /\ UNCHANGED <<responses, logs, files, pc>>

\* Chatbot.process_message(message), the wall clock reading second sec
ProcessMessage(message, sec) ==
    /\ Ready
    /\ LET r == process_message(responses, logs, sec, message)
       IN  /\ logs' = r.logs
           /\ last' = Call("ask", "", message, <<>>, sec, "returned", r.ret, responses)
    /\ nsteps' = nsteps + 1
    /\ UNCHANGED <<responses, files, pc>>

\* Logger.save_logs(file_path)
SaveLogs(path, env) ==
    /\ Ready
    /\ LET w == save_logs(logs, files[path], env)
       IN  /\ files' = [files EXCEPT ![path] = w.file]
           /\ last' = Call("save_logs", path, <<>>, <<>>, 0, w.status, None, responses)
    /\ nsteps' = nsteps + 1
    /\ UNCHANGED <<responses, logs, pc>>

\* Logger.display_logs()
DisplayLogs ==
    /\ Ready
    /\ last' = Call("display", "", <<>>, <<>>, 0, display_logs(logs), None, responses)
    /\ nsteps' = nsteps + 1
    /\ UNCHANGED <<responses, logs, files, pc>>

\* AdminPanel.view_knowledge()
ViewKnowledge ==
    /\ Ready
    /\ last' = Call("view", "", <<>>, <<>>, 0, "printed", None, responses)
    /\ nsteps' = nsteps + 1
    /\ UNCHANGED <<responses, logs, files, pc>>

\* The process ends (menu choice 7, or the uncaught exception) and main()
\* runs again on the files as they are: a new KnowledgeBase loads the default
\* file into an empty dict, a new Logger starts empty.
Restart(env) ==
    /\ nsteps < MaxSteps
    /\ LET r == load_knowledge(<<>>, files[DefaultFile], env)
       IN  /\ responses' = r.map
           /\ pc' = After(r.status)
           /\ last' = Call("init", DefaultFile, <<>>, <<>>, 0, r.status, None, <<>>)
    /\ logs' = <<>>
    /\ nsteps' = nsteps + 1
    /\ UNCHANGED files

Next ==
    \/ \E a \in AddInputs : AddResponse(a[1], a[2])
    \/ \E a \in TypedInputs, env \in WriteEnv : AddKnowledge(a[1], a[2], env)
    \/ \E p \in Paths, env \in ReadEnv : LoadKnowledge(p, env)
    \/ \E p \in Paths, env \in WriteEnv : SaveKnowledge(p, env)
    \/ \E k \in LookupKeys : GetResponse(k)
    \/ \E m \in Messages, sec \in ClockReadings : ProcessMessage(m, sec)
    \/ \E p \in Paths, env \in WriteEnv : SaveLogs(p, env)
    \/ DisplayLogs
    \/ ViewKnowledge
    \/ \E env \in ReadEnv : Restart(env)

Spec == Init /\ [][Next]_vars

(***************************************************************************)
(* Properties.                                                             *)
(***************************************************************************)
\* Two dicts hold the same mapping: the same keys, the same value for each.
SameMapping(a, b) ==
    /\ DictKeys(a) = DictKeys(b)
    /\ \A k \in DictKeys(a) : DictGet(a, k, None) = DictGet(b, k, None)

\* Every key and every value of the dict is a str.
AllStrings(d) == \A i \in 1..Len(d) : d[i][1].t = "str" /\ d[i][2].t = "str"

IsPrefix(a, b) == Len(a) <= Len(b) /\ SubSeq(b, 1, Len(a)) = a

\* The content of a file is malformed: not JSON, JSON that is no object, or
\* an object with a value that is no string.
Malformed(file) ==
    /\ file.exists
    /\ LET r == JsonLoads(file.text)
       IN  \/ ~r.ok
           \/ r.val.t # "obj"
           \/ \E i \in 1..Len(r.val.v) : r.val.v[i][2].t # "str"

\* C1: a load (the constructor's included) that reads a malformed file
\* (invalid JSON, a top level that is no object, an object with a non-string
\* value) reports malformed content and leaves the dict exactly as it was.
C1_MalformedLoadLeavesMapping ==
    (last.op \in {"init", "load"} /\ last.status # "raised OSError" /\ Malformed(files[last.path]))
        => (last.status = "decode_error" /\ responses = last.pre)

\* C2: no load or save is fatal: load_knowledge, save_knowledge, save_logs
\* and the load of the constructor return to their caller whatever the file
\* holds and whatever the file system does.
C2_NoLoadOrSaveRaises ==
    last.op \in {"init", "load", "save", "save_logs", "add_knowledge"}
        => (last.status \notin Raised /\ pc = "menu")

\* C3: round trip: after a successful save of a dict of string keys and
\* string values, loading the saved file into an empty dict succeeds and
\* gives the same mapping.
C3_SaveLoadRoundTrip ==
    (last.op = "save" /\ last.status = "saved" /\ AllStrings(responses))
        => LET r == load_knowledge(<<>>, files[last.path], "ok")
           IN  r.status = "loaded" /\ SameMapping(r.map, responses)

\* C3: a dict of two string entries, one holding a quote and a backslash, has
\* been saved.
C3_Witness ==
    /\ last.op = "save" /\ last.status = "saved"
    /\ AllStrings(responses) /\ Len(responses) = 2
    /\ \E i \in 1..2 : responses[i][2] = Str(RespQuoted)

\* C4: load merges: after a successful load of a file holding the object F
\* into a dict M, every key of F has F's value, every key of M that is not
\* in F has M's value, and the keys are those of M and of F.
C4_LoadMerges ==
    (last.op = "load" /\ last.status = "loaded"
     /\ JsonLoads(files[last.path].text).val.t = "obj")
        => LET F == JsonLoads(files[last.path].text).val.v
               M == last.pre
           IN  /\ \A k \in DictKeys(F) : DictGet(responses, k, None) = DictGet(F, k, None)
               /\ \A k \in DictKeys(M) \ DictKeys(F) :
                      DictGet(responses, k, None) = DictGet(M, k, None)
               /\ DictKeys(responses) = DictKeys(M) \cup DictKeys(F)

\* C4: {"hello": "yo", "k": "v"} has been loaded into a dict that held
\* "hello" with another value and a key the file does not hold.
C4_Witness ==
    /\ last.op = "load" /\ last.status = "loaded"
    /\ files[last.path] = FileOf(TextPatch)
    /\ DictGet(last.pre, Str(KeyHello), None) = Str(RespHiThere)
    /\ DictGet(last.pre, Str(MsgOne), None) = Str(RespControls)
    /\ DictGet(responses, Str(KeyHello), None) = Str(<<"y", "o">>)
    /\ DictGet(responses, Str(MsgOne), None) = Str(RespControls)
    /\ Len(responses) = 3

\* C5: load is idempotent: after a load that read its file (present or
\* absent, well-formed or not), loading the same unchanged file again ends
\* the same way and leaves the dict as the first load left it.
C5_LoadIdempotent ==
    (last.op = "load" /\ last.status # "raised OSError")
        => load_knowledge(responses, files[last.path], "ok")
               = [map |-> responses, status |-> last.status]

\* C5: a load has changed a dict that was not empty.
C5_Witness ==
    /\ last.op = "load" /\ last.status = "loaded"
    /\ last.pre # <<>> /\ responses # last.pre

\* C6: lookup is total and exact-match: get_response returns the stored
\* response when the key is in the dict and the fallback string when it is
\* not, and leaves the dict as it was.
C6_LookupTotal ==
    last.op = "lookup"
        => /\ last.status = "returned"
           /\ responses = last.pre
           /\ \A i \in 1..Len(last.pre) :
                  last.pre[i][1] = Str(last.msg) => last.ret = last.pre[i][2]
           /\ (\A i \in 1..Len(last.pre) : last.pre[i][1] # Str(last.msg))
                  => last.ret = Str(Fallback)

\* C6: a key absent from a dict that is not empty has been looked up.
C6_Witness ==
    /\ last.op = "lookup"
    /\ last.pre # <<>>
    /\ \A i \in 1..Len(last.pre) : last.pre[i][1] # Str(last.msg)
    /\ last.ret = Str(Fallback)

\* C7: ask is a direct composition: process_message returns the lookup of
\* the normalized message, appends one log entry made of the normalized
\* message and the returned response, and leaves the dict unchanged; with
\* "hello" -> "hi there" in the dict, "  Hello " returns "hi there".
C7_AskComposes ==
    [][(last'.op = "ask" /\ nsteps' = nsteps + 1)
          => LET key == preprocess_input(last'.msg)
             IN  /\ last'.ret = get_response(responses, key)
                 /\ logs' = log_message(logs, last'.sec, key, last'.ret)
                 /\ Len(logs') = Len(logs) + 1
                 /\ responses' = responses
                 /\ (last'.msg = MsgHello => key = KeyHello)
                 /\ (last'.msg = MsgSeparators => key = MsgA)
                 /\ (last'.msg = MsgHello
                     /\ DictGet(responses, Str(KeyHello), None) = Str(RespHiThere))
                        => last'.ret = Str(RespHiThere)]_vars

\* C7: after add("hello", "hi there") on an empty dict, "  Hello " has been
\* asked: "hi there" was returned and the log holds one entry.
C7_Witness ==
    /\ last.op = "ask" /\ last.msg = MsgHello
    /\ last.pre = <<<<Str(KeyHello), Str(RespHiThere)>>>>
    /\ last.ret = Str(RespHiThere)
    /\ Len(logs) = 1

\* C8: the log is append-only and ordered: within one run every call leaves
\* the entries it found in place and in order, process_message adds exactly
\* one entry at the end, and no other call (a save that fails included)
\* adds or removes any.
C8_LogAppendOnly ==
    [][(last'.op # "init" /\ nsteps' = nsteps + 1)
          => /\ IsPrefix(logs, logs')
             /\ Len(logs') = Len(logs) + (IF last'.op = "ask" THEN 1 ELSE 0)]_vars

\* C8: two entries were appended and a save of the log has failed.
C8_Witness ==
    /\ last.op = "save_logs" /\ last.status = "save_error"
    /\ Len(logs) = 2

\* C9: add never persists: add_response, get_response and process_message
\* leave every file as it is, and a file's content changes only in a call
\* that saves (save_knowledge, save_logs, or add_knowledge, which calls
\* save_knowledge after add_response).
C9_AddDoesNotPersist ==
    [][nsteps' = nsteps + 1
          => /\ last'.op \in {"add", "lookup", "ask"} => files' = files
             /\ files' # files => last'.op \in {"save", "save_logs", "add_knowledge"}
             /\ last'.op = "add"
                    => /\ logs' = logs
                       /\ DictGet(responses', Str(last'.msg), None) = Str(last'.resp)]_vars

\* C9: an add has changed the dict after a save, and the default file still
\* holds the dict as it was before the add.
C9_Witness ==
    /\ last.op = "add"
    /\ responses # last.pre
    /\ files[DefaultFile] = FileOf(JsonDump(last.pre))

\* C10: after a round of add_knowledge whose save succeeded, a store
\* constructed on the default file holds the mapping the running store holds.
C10_AdminAddIsDurable ==
    (last.op = "add_knowledge" /\ last.status = "saved")
        => LET r == load_knowledge(<<>>, files[DefaultFile], "ok")
           IN  r.status = "loaded" /\ SameMapping(r.map, responses)

====
